---- MODULE Spec2Model ----
(***************************************************************************)
(* Model of the receipt aggregation pipeline of ReadReceipt                *)
(* (data_aggregator.py): a caller collects per-frame item lists, then      *)
(* aggregate_receipt_data flattens, normalises, back-fills the date and    *)
(* run-length collapses them into the final table.                         *)
(* Further specifications model the frame selector and cleanup_files of    *)
(* video_processor.py (SpecSelect, SpecCleanup) and the submission         *)
(* handlers of bot.py, bot_telethon.py and app_gradio.py (SpecHandler,     *)
(* SpecConcurrent).                                                        *)
(*                                                                         *)
(* Python values are tagged records [t, v]:                                *)
(*   none  : None                 nan   : float('nan')                     *)
(*   int   : v is the integer     float : v is the value in hundredths     *)
(*   str   : v is the sequence of one-character strings                    *)
(* Non-finite floats other than nan are outside the value domain.          *)
(***************************************************************************)
EXTENDS Integers, Sequences, FiniteSets, TLC

VARIABLES all_frames_data, final_df, q, size, pc,
          video, similarity_threshold, distinct_frames, disk, clock,
          file_paths, locked, cleaned, subs, response, valid_items

\* the state of the frame selector and of the temporary directory
selVars == <<video, similarity_threshold, distinct_frames, disk, clock>>

\* the state of one cleanup_files call
cleanVars == <<file_paths, locked, cleaned>>

\* the answer of the OCR service to one frame and what the extractor returns
ocrVars == <<response, valid_items>>

vars == <<all_frames_data, final_df, q, size, pc, selVars, cleanVars, subs,
          ocrVars>>

(***************************************************************************)
(* Bounds of the model                                                     *)
(***************************************************************************)
MaxRows == 5

MaxFrames == 2

MaxFrameItems == 2

MaxStrLen == 3

MaxInt == 12

\* frames decoded from one video
MaxDecoded == 4

\* paths in one cleanup list
MaxPaths == 3

(***************************************************************************)
(* Python values                                                           *)
(***************************************************************************)
NONE == [t |-> "none", v |-> 0]

NaN == [t |-> "nan", v |-> 0]

PyInt(n) == [t |-> "int", v |-> n]

PyFloat(c) == [t |-> "float", v |-> c]

PyStr(s) == [t |-> "str", v |-> s]

\* pd.isna on a scalar
isna(x) == x.t \in {"none", "nan"}

\* Python == on two scalars of the model (a number never equals a string)
PyEq(a, b) ==
    IF a.t = "str" \/ b.t = "str" THEN a.t = b.t /\ a.v = b.v
    ELSE IF isna(a) \/ isna(b) THEN a.t = "none" /\ b.t = "none"
    ELSE IF a.t = b.t THEN a.v = b.v
    ELSE IF a.t = "int" THEN a.v * 100 = b.v
    ELSE a.v = b.v * 100

(***************************************************************************)
(* Characters and the str methods the aggregator uses                      *)
(***************************************************************************)
LowerChars == <<"a","b","c","d","e","f","g","h","i","j","k","l","m",
                "n","o","p","q","r","s","t","u","v","w","x","y","z">>

UpperChars == <<"A","B","C","D","E","F","G","H","I","J","K","L","M",
                "N","O","P","Q","R","S","T","U","V","W","X","Y","Z">>

DigitChars == <<"0","1","2","3","4","5","6","7","8","9">>

Whitespace == {" "}

Range(s) == {s[i] : i \in DOMAIN s}

\* a list (a str, a column, the rows of a frame) held as an explicit sequence
Rows(f) == SubSeq(f, 1, Len(f))

LowerSet == Range(LowerChars)

Letters == Range(LowerChars) \cup Range(UpperChars)

Digits == Range(DigitChars)

\* str.isalpha on one character
isalpha(c) == c \in Letters

isdigit(c) == c \in Digits

\* the value of each digit character
DigitValues == [c \in Digits |-> (CHOOSE i \in DOMAIN DigitChars : DigitChars[i] = c) - 1]

DigitVal(c) == DigitValues[c]

\* the upper-case form of each lower-case letter
UpperOf ==
    [c \in LowerSet |-> UpperChars[CHOOSE i \in DOMAIN LowerChars : LowerChars[i] = c]]

\* str.upper on one character
upper_char(c) == IF c \in LowerSet THEN UpperOf[c] ELSE c

\* str.upper
str_upper(s) == Rows([i \in DOMAIN s |-> upper_char(s[i])])

\* str.strip: drop leading and trailing whitespace
str_strip(s) ==
    LET keep == {i \in DOMAIN s : s[i] \notin Whitespace}
    IN  IF keep = {} THEN <<>>
        ELSE LET lo == CHOOSE i \in keep : \A j \in keep : i <= j
                 hi == CHOOSE i \in keep : \A j \in keep : j <= i
             IN  SubSeq(s, lo, hi)

\* astype(str) on a name cell
astype_str(x) ==
    IF x.t = "str" THEN x.v
    ELSE IF x.t = "none" THEN <<"N","o","n","e">>
    ELSE <<"n","a","n">>

\* df['item_name'].astype(str).str.upper().str.strip()
normalize_name(x) == str_strip(str_upper(astype_str(x)))

(***************************************************************************)
(* Numeric conversions                                                     *)
(***************************************************************************)
RECURSIVE DecimalValue(_)
\* value of a non-empty sequence of digit characters
DecimalValue(ds) ==
    IF ds = <<>> THEN 0
    ELSE 10 * DecimalValue(SubSeq(ds, 1, Len(ds) - 1)) + DigitVal(ds[Len(ds)])

AllDigits(ds) == ds # <<>> /\ \A i \in DOMAIN ds : isdigit(ds[i])

\* Python int(x): [ok, val]; ok = FALSE stands for ValueError / TypeError
py_int(x) ==
    IF x.t = "int" THEN [ok |-> TRUE, val |-> x.v]
    ELSE IF x.t = "float"
    THEN [ok |-> TRUE,
          val |-> IF x.v >= 0 THEN x.v \div 100 ELSE -((-x.v) \div 100)]
    ELSE IF x.t = "str"
    THEN LET s    == str_strip(x.v)
             neg  == s # <<>> /\ s[1] = "-"
             sgn  == s # <<>> /\ s[1] \in {"-", "+"}
             body == IF sgn THEN Tail(s) ELSE s
         IN  IF AllDigits(body)
             THEN [ok |-> TRUE,
                   val |-> IF neg THEN -DecimalValue(body)
                           ELSE DecimalValue(body)]
             ELSE [ok |-> FALSE, val |-> 0]
    ELSE [ok |-> FALSE, val |-> 0]

\* variant: the converted value is returned without the positivity test
parse_size_unchecked(x) ==
    IF isna(x) \/ PyEq(x, PyStr(<<>>)) THEN PyInt(1)
    ELSE LET r == py_int(x)
         IN  IF r.ok THEN PyInt(r.val) ELSE PyInt(1)

\* parse_size(q) of aggregate_receipt_data; the result is a Python int
parse_size(x) ==
    IF isna(x) \/ PyEq(x, PyStr(<<>>)) THEN PyInt(1)
    ELSE LET r == py_int(x)
         IN  IF r.ok
             THEN (IF r.val > 0 THEN PyInt(r.val) ELSE PyInt(1))
             ELSE PyInt(1)

\* pd.to_numeric(cell, errors='coerce') on one cell: a float, nan when the
\* cell is missing or is a string that is not a decimal number
to_numeric(x) ==
    IF isna(x) THEN NaN
    ELSE IF x.t = "int" THEN PyFloat(100 * x.v)
    ELSE IF x.t = "float" THEN x
    ELSE LET s    == str_strip(x.v)
             dots == {i \in DOMAIN s : s[i] = "."}
         IN  IF dots = {}
             THEN (IF AllDigits(s) THEN PyFloat(100 * DecimalValue(s)) ELSE NaN)
             ELSE LET d    == CHOOSE i \in dots : TRUE
                      ip   == SubSeq(s, 1, d - 1)
                      fp   == SubSeq(s, d + 1, Len(s))
                  IN  IF Cardinality(dots) = 1 /\ AllDigits(ip) /\ AllDigits(fp)
                         /\ Len(fp) <= 2
                      THEN PyFloat(100 * DecimalValue(ip)
                                   + (IF Len(fp) = 1 THEN 10 ELSE 1) * DecimalValue(fp))
                      ELSE NaN

(***************************************************************************)
(* Inputs: the raw items a frame can hold                                  *)
(***************************************************************************)
RawItem(name, sz, price) ==
    [item_name |-> name, item_size |-> sz, price_per_unit |-> price]

MILK == RawItem(PyStr(<<"M","I","L","K">>), PyInt(1), PyFloat(299))

\* the same line read with another letter case, a trailing blank and a
\* price given as text
MILK_RAW ==
    RawItem(PyStr(<<"M","i","l","k"," ">>), PyInt(1), PyStr(<<"2",".","9","9">>))

\* the same line with another size
MILK_2 == RawItem(PyStr(<<"M","I","L","K">>), PyInt(2), PyFloat(299))

BREAD == RawItem(PyStr(<<"B","R","E","A","D">>), PyInt(1), PyFloat(350))

\* a line whose price cannot be parsed
NOPRICE == RawItem(PyStr(<<"M","I","L","K">>), PyInt(1), PyStr(<<"N","/","A">>))

\* the synthetic date-token item the date-aware handlers inject
DateToken(date_str) == RawItem(PyStr(date_str), NONE, NONE)

DATE1 == DateToken(<<"0","3","/","0","1","/","2","5">>)

DATE2 == DateToken(<<"0","3","/","0","2","/","2","5">>)

Items == {MILK, MILK_RAW, MILK_2, BREAD, NOPRICE, DATE1, DATE2}

(***************************************************************************)
(* aggregate_receipt_data                                                  *)
(***************************************************************************)
RECURSIVE flatten_reversed(_)
\* variant: the frames are taken last to first
flatten_reversed(frames) ==
    IF frames = <<>> THEN <<>>
    ELSE flatten_reversed(Tail(frames)) \o Head(frames)

RECURSIVE flatten(_)
\* flat_list_of_items: every frame's items, frames in input order
flatten(frames) ==
    IF frames = <<>> THEN <<>>
    ELSE Head(frames) \o flatten(Tail(frames))

\* the table returned when there is nothing to aggregate
empty_df ==
    [columns |-> <<"Item Name", "Item Size", "Cost Per Item ($)">>,
     rows |-> <<>>]

\* one row of df after the name, size and price columns are normalised
normalize_row(item) ==
    [item_name            |-> item.item_name,
     item_size            |-> parse_size(item.item_size),
     price_per_unit       |-> to_numeric(item.price_per_unit),
     normalized_item_name |-> PyStr(normalize_name(item.item_name))]

\* the normalisation works cell by cell, so it is tabulated once per item
NormalizedItems == [item \in Items |-> normalize_row(item)]

\* df after the name, size and price columns are normalised
normalize(flat) == Rows([i \in DOMAIN flat |-> NormalizedItems[flat[i]]])

\* is_item: the name itself when it has no alphabetic character, else None
is_item(item) ==
    IF \E i \in DOMAIN item : isalpha(item[i]) THEN NONE ELSE PyStr(item)

RECURSIVE ffill(_)
\* variant: Series.ffill, a missing cell takes the last valid cell above it
ffill(col) ==
    IF col = <<>> THEN <<>>
    ELSE LET rest == ffill(SubSeq(col, 1, Len(col) - 1))
             last == col[Len(col)]
         IN  IF isna(last) /\ rest # <<>>
             THEN rest \o <<rest[Len(rest)]>>
             ELSE rest \o <<last>>

\* variant: Series.bfill(limit=1), a missing cell takes the cell right below it
bfill_limit1(col) ==
    Rows([i \in DOMAIN col |->
        IF isna(col[i]) /\ i < Len(col) THEN col[i + 1] ELSE col[i]])

RECURSIVE bfill(_)
\* Series.bfill: a missing cell takes the next valid cell below it
bfill(col) ==
    IF col = <<>> THEN <<>>
    ELSE LET rest == bfill(Tail(col))
         IN  IF isna(Head(col)) /\ rest # <<>>
             THEN <<Head(rest)>> \o rest
             ELSE <<Head(col)>> \o rest

\* variant: the Date column is added without the back-fill
with_date_nofill(df) ==
    Rows([i \in DOMAIN df |->
            [item_name            |-> df[i].item_name,
             item_size            |-> df[i].item_size,
             price_per_unit       |-> df[i].price_per_unit,
             normalized_item_name |-> df[i].normalized_item_name,
             Date                 |-> is_item(df[i].normalized_item_name.v)]])

\* df with the back-filled Date column added
with_date(df) ==
    LET col == bfill([i \in DOMAIN df |-> is_item(df[i].normalized_item_name.v)])
    IN  Rows([i \in DOMAIN df |->
            [item_name            |-> df[i].item_name,
             item_size            |-> df[i].item_size,
             price_per_unit       |-> df[i].price_per_unit,
             normalized_item_name |-> df[i].normalized_item_name,
             Date                 |-> col[i]]])

\* df.columns.tolist() at the point of the aggregation
id_cols ==
    <<"item_name", "item_size", "price_per_unit", "normalized_item_name", "Date">>

\* the inequality of Python objects: two missing values are equal
cell_ne_object(a, b) ==
    IF isna(a) \/ isna(b) THEN ~(isna(a) /\ isna(b)) ELSE ~PyEq(a, b)

\* one cell of (df != df.shift(1)): a missing value differs from everything
cell_ne(a, b) == isna(a) \/ isna(b) \/ ~PyEq(a, b)

\* (df[id_cols] != df[id_cols].shift(1)).any(axis=1)
change_flags(df) ==
    Rows([i \in DOMAIN df |->
        i = 1 \/ \E c \in DOMAIN id_cols :
                    cell_ne(df[i][id_cols[c]], df[i - 1][id_cols[c]])])

\* change_flags.cumsum()
group_ids(df) ==
    LET flags == change_flags(df)
    IN  Rows([i \in DOMAIN df |-> Cardinality({j \in 1..i : flags[j]})])

\* the 'first' aggregation: first non-missing cell of the column in the group
agg_first(df, members, c) ==
    LET valid == {i \in members : ~isna(df[i][c])}
    IN  IF valid = {} THEN NaN
        ELSE df[CHOOSE i \in valid : \A j \in valid : i <= j][c]

\* Quantity = count of the priced rows of the group instead of its size
groupby_agg_count(df) ==
    LET gid == group_ids(df)
        n   == IF df = <<>> THEN 0 ELSE gid[Len(df)]
    IN  Rows([g \in 1..n |->
            LET members == {i \in DOMAIN df : gid[i] = g}
            IN  [c \in Range(id_cols) |-> agg_first(df, members, c)]
                @@ ("Quantity" :>
                        Cardinality({i \in members :
                                        ~isna(df[i].price_per_unit)}))])

\* df.groupby(group_ids).agg(first of every column, Quantity = size)
\* .reset_index(drop=True): one row per group, in ascending group id
groupby_agg(df) ==
    LET gid == group_ids(df)
        n   == IF df = <<>> THEN 0 ELSE gid[Len(df)]
    IN  Rows([g \in 1..n |->
            LET members == {i \in DOMAIN df : gid[i] = g}
            IN  [c \in Range(id_cols) |-> agg_first(df, members, c)]
                @@ ("Quantity" :> Cardinality(members))])

\* final_df: the selected columns under their final headers
select_columns(df) ==
    [columns |-> <<"Date", "Quantity", "Item Name", "Cost Per Item ($)">>,
     rows |-> [g \in DOMAIN df |->
                  ("Date" :> df[g]["Date"])
                  @@ ("Quantity" :> df[g]["Quantity"])
                  @@ ("Item Name" :> df[g]["normalized_item_name"])
                  @@ ("Cost Per Item ($)" :> df[g]["price_per_unit"])]]

aggregate_receipt_data(frames) ==
    LET flat_list_of_items == flatten(frames)
    IN  IF flat_list_of_items = <<>> THEN empty_df
        ELSE LET df == normalize(flat_list_of_items)
             IN  IF df = <<>> THEN empty_df
                 ELSE select_columns(groupby_agg(with_date(df)))

(***************************************************************************)
(* Inputs of the call                                                      *)
(***************************************************************************)
SeqsUpTo(S, n) == UNION {[1..m -> S] : m \in 0..n}

\* the items of the multi-frame inputs
FrameItems == {MILK, BREAD}

\* inputs of several per-frame lists, empty lists included
FrameInputs == SeqsUpTo(SeqsUpTo(FrameItems, MaxFrameItems), MaxFrames)

\* inputs of one per-frame list over all the items
RowInputs == {<<frame_items>> : frame_items \in SeqsUpTo(Items, MaxRows)}

\* the value of final_df before the call returns
NoTable == [columns |-> <<>>, rows |-> <<>>]

(***************************************************************************)
(* The frame selector (video_processor.py).  A decoded video is a record   *)
(*   opened : cap.isOpened()          n    : frames cap.read() delivers    *)
(*   fps    : cap.get(CAP_PROP_FPS)   sim  : ssim of frames i < j, in      *)
(*   odd    : frames whose resized              hundredths                 *)
(*            shape differs           raises : the frame whose processing  *)
(*                                             raises (0: none)            *)
(* A path of TEMP_DIR is a tuple, <<"frame", t>> for frame_<t>.png; the    *)
(* disk is the set of <<path, content>> pairs, one per existing file.      *)
(***************************************************************************)
\* similarity_threshold=0.32, in hundredths
DEFAULT_THRESHOLD == 32

\* the thresholds tried
Thresholds == {DEFAULT_THRESHOLD, 60}

\* the values structural_similarity takes, in hundredths: below both
\* thresholds, between them, and equal to the higher one
SimValues == {20, 50, 60}

\* the frame rates of the regular videos: 3 and 4 frames per second
FpsValues == {3, 4}

\* ssim either returns a value or raises ValueError
VALUE_ERROR == [error |-> TRUE, value |-> 0]

ssim_value(x) == [error |-> FALSE, value |-> x]

\* frame_skip = max(1, int(fps / 2)) if fps > 0 else 1
frame_skip(fps) ==
    IF fps > 0 THEN (IF fps \div 2 > 1 THEN fps \div 2 ELSE 1) ELSE 1

\* the first frame is always processed, then every frame_skip-th one
is_candidate_from_first(frame_count, skip) ==
    ~((frame_count - 1) % skip # 0 /\ skip # 1)

\* the negation of: frame_count % frame_skip != 0 and frame_skip != 1
is_candidate(frame_count, skip) == ~(frame_count % skip # 0 /\ skip # 1)

\* ssim(prev_gray_frame, current_gray_frame): raises ValueError when the two
\* shapes differ
ssim(v, i, j) ==
    IF (i \in v.odd) # (j \in v.odd) THEN VALUE_ERROR
    ELSE ssim_value(v.sim[<<i, j>>])

\* a failed comparison leaves the frame out
is_distinct_fail_closed(v, prev, cur, threshold) ==
    IF prev = 0 THEN TRUE
    ELSE LET s == ssim(v, prev, cur)
         IN  IF s.error THEN FALSE ELSE s.value < threshold

\* a score equal to the threshold counts as distinct
is_distinct_at_most(v, prev, cur, threshold) ==
    IF prev = 0 THEN TRUE
    ELSE LET s == ssim(v, prev, cur)
         IN  IF s.error THEN TRUE ELSE s.value <= threshold

\* the comparison against the threshold reversed
is_distinct_above(v, prev, cur, threshold) ==
    IF prev = 0 THEN TRUE
    ELSE LET s == ssim(v, prev, cur)
         IN  IF s.error THEN TRUE ELSE s.value > threshold

\* is_distinct of lines 45-55; prev = 0 is prev_gray_frame None
is_distinct(v, prev, cur, threshold) ==
    IF prev = 0 THEN TRUE
    ELSE LET s == ssim(v, prev, cur)
         IN  IF s.error THEN TRUE ELSE s.value < threshold

\* os.path.join(TEMP_DIR, f"frame_{time.time()}.png")
frame_filename(t) == <<"frame", t>>

\* writing a file creates it or replaces its content
write(d, path, content) == {e \in d : e[1] # path} \cup {<<path, content>>}

exists(d, path) == \E e \in d : e[1] = path

content(d, path) == (CHOOSE e \in d : e[1] = path)[2]

\* the locals at the loop entry (lines 16, 22, 23) with the disk and the
\* clock the call starts from; dt is the advance of the clock between two
\* readings of time.time().  Two logs are kept beside the locals: processed,
\* the frame counts that reach line 38, and compared, the pairs
\* <<prev_gray_frame, current_gray_frame>> given to ssim at line 50
locals_at_entry(d, t, dt) ==
    [distinct_frames_paths |-> <<>>, prev_gray_frame |-> 0, frame_count |-> 0,
     raised |-> FALSE, disk |-> d, clock |-> t, dt |-> dt,
     processed |-> <<>>, compared |-> <<>>]

\* the locals when a frame has got past line 36
at_line_38(l, pos) ==
    [l EXCEPT !.frame_count = @ + 1,
              !.processed = Append(@, l.frame_count + 1),
              !.compared = IF l.prev_gray_frame = 0 THEN @
                           ELSE Append(@, <<l.prev_gray_frame, pos>>)]

\* a frame already saved in TEMP_DIR is not saved again
loop_body_unless_saved(l, pos, v, threshold) ==
    LET frame_count == l.frame_count + 1
        frame_filename_ == frame_filename(l.clock)
    IN  IF ~is_candidate(frame_count, frame_skip(v.fps))
        THEN [l EXCEPT !.frame_count = frame_count]
        ELSE IF /\ is_distinct(v, l.prev_gray_frame, pos, threshold)
                /\ ~\E e \in l.disk : e[2] = pos
             THEN [at_line_38(l, pos) EXCEPT
                            !.distinct_frames_paths = Append(@, frame_filename_),
                            !.prev_gray_frame = pos,
                            !.disk = write(@, frame_filename_, pos),
                            !.clock = @ + l.dt]
             ELSE at_line_38(l, pos)

\* one iteration of the while loop (lines 34-62) on the frame at position
\* pos; time.time() returns the clock, which then advances
loop_body(l, pos, v, threshold) ==
    LET frame_count == l.frame_count + 1
        frame_filename_ == frame_filename(l.clock)
    IN  IF ~is_candidate(frame_count, frame_skip(v.fps))
        THEN [l EXCEPT !.frame_count = frame_count]
        ELSE IF is_distinct(v, l.prev_gray_frame, pos, threshold)
             THEN [at_line_38(l, pos) EXCEPT
                            !.distinct_frames_paths = Append(@, frame_filename_),
                            !.prev_gray_frame = pos,
                            !.disk = write(@, frame_filename_, pos),
                            !.clock = @ + l.dt]
             ELSE at_line_38(l, pos)

\* the while loop of lines 29-62 from position pos on; an exception raised
\* while a frame is processed leaves the loop and the function
RECURSIVE read_frames(_, _, _, _)

read_frames(l, pos, v, threshold) ==
    IF pos > v.n THEN l
    ELSE IF pos = v.raises THEN [l EXCEPT !.raised = TRUE]
    ELSE read_frames(loop_body(l, pos, v, threshold), pos + 1, v, threshold)

\* extract_distinct_frames(video_path, similarity_threshold): the locals at
\* the return or at the raise
extract_distinct_frames(v, threshold, d, t, dt) ==
    IF ~v.opened THEN locals_at_entry(d, t, dt)
    ELSE read_frames(locals_at_entry(d, t, dt), 1, v, threshold)

(***************************************************************************)
(* Specification SpecSelect: extract_distinct_frames called twice on one   *)
(* video, the second call after the first has returned; every reading of   *)
(* the clock is later than the one before                                  *)
(***************************************************************************)
\* the pairs of frames of which ssim may be asked: the frames the loop does
\* not skip, the earlier one first
Pairs(n, fps) ==
    {p \in (1..n) \X (1..n) :
        /\ p[1] < p[2]
        /\ is_candidate(p[1], frame_skip(fps))
        /\ is_candidate(p[2], frame_skip(fps))}

\* a file that cannot be opened as a video
Unopenable ==
    [opened |-> FALSE, n |-> 0, fps |-> 0, sim |-> <<>>, odd |-> {},
     raises |-> 0]

\* a video of n regular frames with the similarity table sim
RegularVideo(n, fps, sim) ==
    [opened |-> TRUE, n |-> n, fps |-> fps, sim |-> sim, odd |-> {},
     raises |-> 0]

\* a video of n look-alike frames of unknown frame rate (0), the frames of
\* odd with another shape, the frame raises (if not 0) impossible to process
IrregularVideo(n, odd, raises) ==
    [opened |-> TRUE, n |-> n, fps |-> 0,
     sim |-> [p \in Pairs(n, 0) |-> 60], odd |-> odd, raises |-> raises]

\* the videos tried: an unreadable file, the regular videos with every
\* similarity table, and the irregular videos with every set of odd frames
IsVideoInput(v) ==
    \/ v = Unopenable
    \/ \E n \in 0..MaxDecoded : \E fps \in FpsValues :
           \E sim \in [Pairs(n, fps) -> SimValues] :
               v = RegularVideo(n, fps, sim)
    \/ \E n \in 1..MaxDecoded :
           \E odd \in SUBSET (1..n), r \in 0..n :
               v = IrregularVideo(n, odd, r)

NoVideo == [opened |-> FALSE, n |-> 0, fps |-> 0, sim |-> <<>>, odd |-> {},
            raises |-> 0]

\* the selector is not part of the run
SelectorIdle ==
    /\ video = NoVideo
    /\ similarity_threshold = <<>>
    /\ distinct_frames = <<>>
    /\ disk = {}
    /\ clock = 0

\* the value of cleaned before the call returns
NotCleaned == [disk |-> {}, attempted |-> <<>>, reported |-> <<>>,
               raised |-> FALSE]

\* no cleanup_files call is part of the run
CleanupIdle ==
    /\ file_paths = <<>>
    /\ locked = {}
    /\ cleaned = NotCleaned

\* no submission is part of the run
NoSubmission == subs = <<>>

\* no answer of the OCR service
NoResponse == [key |-> FALSE, fails |-> FALSE, text |-> <<>>]

\* the value of valid_items before extract_data_from_frame_gemini returns
NotExtracted == [raised |-> FALSE, value |-> <<>>]

\* extract_data_from_frame_gemini is not part of the run
ExtractorIdle ==
    /\ response = NoResponse
    /\ valid_items = NotExtracted

\* aggregate_receipt_data and parse_size are not part of the run
AggregatorIdle ==
    /\ all_frames_data = <<>>
    /\ final_df = NoTable
    /\ q = NONE
    /\ size = NONE

InitSelect ==
    /\ AggregatorIdle
    /\ ExtractorIdle
    /\ CleanupIdle
    /\ NoSubmission
    /\ IsVideoInput(video)
    /\ similarity_threshold \in
           {t \in Thresholds \X Thresholds : t[1] <= t[2]}
    /\ distinct_frames = <<>>
    /\ disk = {}
    /\ clock = 0
    /\ pc = "select"

\* distinct_frame_paths = extract_distinct_frames(video_path, threshold):
\* the call number Len(distinct_frames) + 1
SelectFrames ==
    /\ pc = "select"
    /\ \E call \in {Len(distinct_frames) + 1} :
       \E l \in {extract_distinct_frames(video, similarity_threshold[call],
                                        disk, clock, 1)} :
           /\ distinct_frames' =
                  Append(distinct_frames,
                         [raised |-> l.raised,
                          paths |-> IF l.raised THEN <<>>
                                    ELSE l.distinct_frames_paths,
                          processed |-> l.processed,
                          compared |-> l.compared])
           /\ disk' = l.disk
           /\ clock' = l.clock
           /\ pc' = IF call = 2 THEN "selected" ELSE "select"
    /\ UNCHANGED <<all_frames_data, final_df, q, size, video,
                   similarity_threshold, cleanVars, subs, ocrVars>>

NextSelect == SelectFrames

SpecSelect == InitSelect /\ [][NextSelect]_vars

(***************************************************************************)
(* cleanup_files (video_processor.py 156-163)                              *)
(***************************************************************************)
\* os.remove(file_path): deletes the file, or raises when the file is
\* locked
remove(d, path, lck) ==
    IF path \in lck THEN [raised |-> TRUE, disk |-> d]
    ELSE [raised |-> FALSE, disk |-> {e \in d : e[1] # path}]

\* the loop body without its try: a failed deletion leaves the function
cleanup_one_unguarded(r, path, lck) ==
    LET a == [r EXCEPT !.attempted = Append(@, path)]
    IN  IF ~exists(r.disk, path) THEN a
        ELSE LET x == remove(r.disk, path, lck)
             IN  IF x.raised THEN [a EXCEPT !.raised = TRUE]
                 ELSE [a EXCEPT !.disk = x.disk]

\* the loop body (lines 159-163) for one path: a path that does not exist
\* is skipped, a failed deletion is printed
cleanup_one(r, path, lck) ==
    LET a == [r EXCEPT !.attempted = Append(@, path)]
    IN  IF ~exists(r.disk, path) THEN a
        ELSE LET x == remove(r.disk, path, lck)
             IN  IF x.raised THEN [a EXCEPT !.reported = Append(@, path)]
                 ELSE [a EXCEPT !.disk = x.disk]

\* the for loop of line 158 from index k on; an exception that leaves the
\* body ends the loop
RECURSIVE cleanup_loop(_, _, _, _)

cleanup_loop(r, paths, k, lck) ==
    IF k > Len(paths) \/ r.raised THEN r
    ELSE cleanup_loop(cleanup_one(r, paths[k], lck), paths, k + 1, lck)

\* cleanup_files(file_paths) on the disk d: the disk left, the paths
\* attempted, the failures printed, and whether the call raised
cleanup_files(d, paths, lck) ==
    cleanup_loop([disk |-> d, attempted |-> <<>>, reported |-> <<>>,
                  raised |-> FALSE], paths, 1, lck)

(***************************************************************************)
(* Specification SpecCleanup: one cleanup_files call                       *)
(***************************************************************************)
\* the paths of the lists tried
CleanupPaths == {<<"video", 1>>, <<"frame", 0>>, <<"frame", 1>>}

\* the file at path, holding frame 1
file(path) == <<path, 1>>

InitCleanup ==
    /\ AggregatorIdle
    /\ ExtractorIdle
    /\ NoSubmission
    /\ video = NoVideo
    /\ similarity_threshold = <<>>
    /\ distinct_frames = <<>>
    /\ clock = 0
    /\ file_paths \in SeqsUpTo(CleanupPaths, MaxPaths)
    /\ \E present \in SUBSET CleanupPaths :
           disk = {file(path) : path \in present}
    /\ locked \in SUBSET CleanupPaths
    /\ cleaned = NotCleaned
    /\ pc = "cleanup"

\* cleanup_files(file_paths)
CleanupFiles ==
    /\ pc = "cleanup"
    /\ cleaned' = cleanup_files(disk, file_paths, locked)
    /\ disk' = cleaned'.disk
    /\ pc' = "cleaned"
    /\ UNCHANGED <<all_frames_data, final_df, q, size, video,
                   similarity_threshold, distinct_frames, clock, file_paths,
                   locked, subs, ocrVars>>

NextCleanup == CleanupFiles

SpecCleanup == InitCleanup /\ [][NextCleanup]_vars

(***************************************************************************)
(* The submission handlers: handle_video and handle_document of bot.py and *)
(* of bot_telethon.py, process_video_for_gradio of app_gradio.py.  subs    *)
(* holds one record per submission in progress: its input, the locals of   *)
(* the handler, what the user was sent, and a log of its file operations.  *)
(* Replies to the user are taken to succeed.                               *)
(***************************************************************************)
Handlers ==
    {"bot_video", "bot_document", "telethon_video", "telethon_document",
     "gradio"}

VideoHandlers == {"bot_video", "telethon_video", "gradio"}

\* the handlers that call extract_date on every frame
DateHandlers == {"bot_document", "telethon_video", "telethon_document"}

\* what extract_data_from_frame_gemini does on a frame: returns items,
\* returns [], or raises
Outcomes == {"items", "empty", "raises"}

\* the step of the pipeline, other than the frame selection and the
\* per-frame extraction, that raises
Faults == {"none", "download", "aggregate", "csv"}

\* the advance of the clock between two readings
ClockSteps == {0, 1}

\* a video whose n frames all differ, or a PDF of n pages; the frame or
\* page raises (if not 0) cannot be processed
ScrollVideo(n, raises) ==
    [opened |-> TRUE, n |-> n, fps |-> 0,
     sim |-> [p \in Pairs(n, 0) |-> 20], odd |-> {}, raises |-> raises]

\* the items read from the frame or page c
FrameOutput(c) ==
    CASE c = 1 -> <<MILK>>
      [] c = 2 -> <<BREAD>>
      [] c = 3 -> <<MILK_2>>
      [] OTHER -> <<NOPRICE>>

\* a status line: a label and a number
Line(label) == <<label, 0>>

\* the path of the input file: "{file_id}.mp4", "video_{message.id}.mp4",
\* "{unique_id}.pdf" with unique_id = time.time(), "pdf_{message.id}.pdf",
\* Gradio's own upload path
input_path(h, uid) ==
    CASE h = "bot_video" -> <<"file", uid>>
      [] h = "telethon_video" -> <<"video", uid>>
      [] h = "bot_document" -> <<"time_pdf", uid>>
      [] h = "telethon_document" -> <<"pdf", uid>>
      [] h = "gradio" -> <<"upload", uid>>

\* "{unique_id}_page_{page_index}.png", "pdf_{message.id}_page_{page_index}.png"
page_path(h, uid, page_index) ==
    IF h = "bot_document" THEN <<"time_page", uid, page_index>>
    ELSE <<"pdf_page", uid, page_index>>

\* the name tempfile.NamedTemporaryFile gives the CSV of submission s
csv_path(s) == <<"csv", s>>

\* a submission at the entry of its handler
Submission(h, id, accepted, v, ocr, dates, fault, dt) ==
    [handler |-> h, id |-> id, accepted |-> accepted, video |-> v,
     ocr |-> ocr, dates |-> dates, fault |-> fault, dt |-> dt,
     pc |-> "start", i |-> 0, unique_id |-> 0, input_path |-> <<>>,
     all_frame_files_to_clean |-> <<>>, distinct_frame_paths |-> <<>>,
     all_extracted_items_from_frames |-> <<>>, final_df |-> NoTable,
     status_updates |-> <<>>, csv_path |-> <<>>,
     messages |-> <<>>, artifacts |-> <<>>, crashed |-> FALSE,
     written |-> {}, attempted |-> <<>>, aggregated |-> <<>>,
     cleanup_calls |-> <<>>, missing |-> 0, appended_in |-> <<>>]

\* the status text replaced by the new line
status_replace(status, line) == <<line>>

\* status_updates += line
status_append(status, line) == Append(status, line)

\* yield status_updates, ... after status_updates += line (app_gradio.py)
yield_(x, line) ==
    IF x.handler = "gradio"
    THEN LET status == status_append(x.status_updates, line)
         IN  [x EXCEPT !.status_updates = status,
                       !.messages = Append(@, status)]
    ELSE x

\* status_updates += line without a yield (app_gradio.py lines 121, 127)
note(x, line) ==
    IF x.handler = "gradio"
    THEN [x EXCEPT !.status_updates = status_append(@, line)]
    ELSE x

\* await message.reply_text(line) / await event.reply(line)
reply(x, line) ==
    IF x.handler = "gradio" THEN x
    ELSE [x EXCEPT !.messages = Append(@, <<line>>)]

\* a message every handler sends at this point
tell(x, line) == reply(yield_(x, line), line)

\* pix.save(image_path) for every page of paths
write_all(d, paths) ==
    {e \in d : e[1] \notin Range(paths)}
        \cup {<<paths[k], k>> : k \in DOMAIN paths}

\* the page loop of handle_document (bot.py 164-178): pymupdf.open raises
\* when the file is missing; a page that cannot be rendered raises after
\* the pages before it were saved
convert_pages(x, d, t) ==
    IF ~exists(d, x.input_path)
    THEN [paths |-> <<>>, disk |-> d, clock |-> t, raised |-> TRUE]
    ELSE LET m == IF x.video.raises > 0 THEN x.video.raises - 1
                  ELSE x.video.n
             paths == Rows([k \in 1..m |->
                               page_path(x.handler, x.unique_id, k - 1)])
         IN  [paths |-> paths, disk |-> write_all(d, paths), clock |-> t,
              raised |-> x.video.raises > 0]

\* the frame images of the submission: extract_distinct_frames(video_path)
\* or the page loop; paths are the files written, also when the call raised
frames_of(x, d, t) ==
    IF x.handler \in VideoHandlers
    THEN LET v == IF exists(d, x.input_path) THEN x.video ELSE Unopenable
             l == extract_distinct_frames(v, DEFAULT_THRESHOLD, d, t, x.dt)
         IN  [paths |-> l.distinct_frames_paths, disk |-> l.disk,
              clock |-> l.clock, raised |-> l.raised]
    ELSE convert_pages(x, d, t)

\* extract_data_from_frame_gemini(frame_path): a file that cannot be opened
\* gives []
ocr_outcome(x, d, path) ==
    IF ~exists(d, path) THEN "empty"
    ELSE LET c == content(d, path)
         IN  IF c \in DOMAIN x.ocr THEN x.ocr[c] ELSE "empty"

\* extract_date(frame_path) returns a date
date_found(x, d, path) ==
    /\ x.handler \in DateHandlers
    /\ exists(d, path)
    /\ LET c == content(d, path) IN c \in DOMAIN x.dates /\ x.dates[c]

\* the synthetic item made of the date read from the frame or page c
\* (bot_telethon.py 98)
date_item(c) == IF c % 2 = 1 THEN DATE1 ELSE DATE2

\* all_extracted_items_from_frames.append(items); appended_in keeps the
\* loop index of every append
append_list(x, items) ==
    [x EXCEPT !.all_extracted_items_from_frames = Append(@, items),
              !.appended_in = Append(@, x.i)]

\* the date is looked for before the items
try_frame_date_first(x, o, c, has_date) ==
    LET a == IF has_date THEN append_list(x, <<date_item(c)>>) ELSE x
    IN  IF o = "items"
        THEN append_list(yield_(a, <<"frame_items", x.i>>), FrameOutput(c))
        ELSE yield_(a, <<"frame_empty", x.i>>)

\* the body of the per-frame try when nothing raises (bot_telethon.py
\* 90-99, app_gradio.py 68-74)
try_frame(x, o, c, has_date) ==
    LET a == IF o = "items"
             THEN append_list(yield_(x, <<"frame_items", x.i>>),
                              FrameOutput(c))
             ELSE yield_(x, <<"frame_empty", x.i>>)
    IN  IF has_date THEN append_list(a, <<date_item(c)>>) ELSE a

\* the per-frame except leaving the loop
on_frame_error_stop(x) ==
    [tell(x, <<"frame_error", x.i>>) EXCEPT
        !.i = Len(x.distinct_frame_paths)]

\* the per-frame except (bot.py 80-82, app_gradio.py 75-78)
on_frame_error(x) == tell(x, <<"frame_error", x.i>>)

\* the caller's input appended to the list
files_we_created_and_input(files, video_path_input) ==
    files \o <<video_path_input>>

\* [f for f in all_files_to_clean if f != video_path_input]
files_we_created(files, video_path_input) ==
    SelectSeq(files, LAMBDA f : f # video_path_input)

\* the list the finally block passes to cleanup_files
cleanup_list(x) ==
    IF x.handler = "gradio"
    THEN files_we_created(x.all_frame_files_to_clean, x.input_path)
    ELSE x.all_frame_files_to_clean

(***************************************************************************)
(* The steps of a handler, each taken by one submission s                  *)
(***************************************************************************)
Put(s, x) == subs' = [subs EXCEPT ![s] = x]

\* the rest of the state, which no handler touches
restVars ==
    <<all_frames_data, final_df, q, size, pc, video, similarity_threshold,
      distinct_frames, cleanVars, ocrVars>>

\* the entry of the handler up to the download: the input is rejected, or
\* its path is chosen and the user is told that it was received
Receive ==
    \E s \in DOMAIN subs :
    LET x == subs[s]
        uid == IF x.handler = "bot_document" THEN clock ELSE x.id
    IN  /\ x.pc = "start"
        /\ IF ~x.accepted
           THEN /\ Put(s, [tell(x, Line("rejected")) EXCEPT !.pc = "done"])
                /\ UNCHANGED clock
           ELSE /\ Put(s, [tell(x, Line("received")) EXCEPT
                              !.unique_id = uid,
                              !.input_path = input_path(x.handler, uid),
                              !.pc = IF x.handler = "gradio" THEN "frames"
                                     ELSE "download"])
                /\ clock' = IF x.handler = "bot_document"
                            THEN clock + x.dt ELSE clock
        /\ UNCHANGED <<disk, restVars>>

\* the download of the input file, before the try (bot.py 42, 155;
\* bot_telethon.py 59, 160), and the list of files to clean
Download ==
    \E s \in DOMAIN subs :
    LET x == subs[s]
    IN  /\ x.pc = "download"
        /\ IF x.fault = "download"
           THEN /\ Put(s, [x EXCEPT !.crashed = TRUE, !.pc = "done"])
                /\ UNCHANGED disk
           ELSE /\ disk' = write(disk, x.input_path, 0)
                /\ LET y == [x EXCEPT
                                !.written = @ \cup {x.input_path},
                                !.all_frame_files_to_clean = <<x.input_path>>,
                                !.pc = "frames"]
                   IN  Put(s, IF x.handler \in VideoHandlers THEN y
                              ELSE reply(y, Line("converting")))
        /\ UNCHANGED <<clock, restVars>>

\* the frame images are written and their paths added to the list
ExtractFrames ==
    \E s \in DOMAIN subs :
    LET x == subs[s]
        f == frames_of(x, disk, clock)
        y == [yield_(x, Line("extracting")) EXCEPT
                 !.written = @ \cup Range(f.paths),
                 !.missing = @ + (IF x.input_path # <<>>
                                     /\ ~exists(disk, x.input_path)
                                  THEN 1 ELSE 0)]
    IN  /\ x.pc = "frames"
        /\ disk' = f.disk
        /\ clock' = f.clock
        /\ Put(s, IF f.raised THEN [y EXCEPT !.pc = "except"]
                  ELSE LET z == [y EXCEPT
                                    !.distinct_frame_paths = f.paths,
                                    !.all_frame_files_to_clean = @ \o f.paths]
                       IN  IF f.paths = <<>>
                           THEN [tell(z, Line("no_frames")) EXCEPT
                                    !.pc = "finally"]
                           ELSE [tell(z, <<"found", Len(f.paths)>>) EXCEPT
                                    !.pc = "ocr", !.i = 1])
        /\ UNCHANGED restVars

\* one iteration of the per-frame loop
ProcessFrame ==
    \E s \in DOMAIN subs :
    LET x == subs[s]
        frame_path == x.distinct_frame_paths[x.i]
        o == ocr_outcome(x, disk, frame_path)
        y == [yield_(x, <<"processing", x.i>>) EXCEPT
                 !.attempted = Append(@, x.i),
                 !.missing = @ + (IF exists(disk, frame_path) THEN 0 ELSE 1)]
        z == IF o = "raises" THEN on_frame_error(y)
             ELSE try_frame(y, o,
                            IF exists(disk, frame_path)
                            THEN content(disk, frame_path) ELSE 0,
                            date_found(x, disk, frame_path))
    IN  /\ x.pc = "ocr"
        /\ Put(s, [z EXCEPT
                      !.i = @ + 1,
                      !.pc = IF z.i >= Len(x.distinct_frame_paths)
                             THEN "aggregate" ELSE "ocr"])
        /\ UNCHANGED <<disk, clock, restVars>>

\* after the loop: the no-items return, aggregate_receipt_data, the empty
\* table return
AggregateFrames ==
    \E s \in DOMAIN subs :
    LET x == subs[s]
    IN  /\ x.pc = "aggregate"
        /\ Put(s,
               IF x.all_extracted_items_from_frames = <<>>
               THEN [tell(x, Line("no_items")) EXCEPT !.pc = "finally"]
               ELSE LET y == [tell(x, Line("aggregating")) EXCEPT
                                 !.aggregated =
                                     Append(@, x.all_extracted_items_from_frames)]
                    IN  IF x.fault = "aggregate"
                        THEN [y EXCEPT !.pc = "except"]
                        ELSE LET df == aggregate_receipt_data(
                                           x.all_extracted_items_from_frames)
                                 z == [y EXCEPT !.final_df = df]
                             IN  IF df.rows = <<>>
                                 THEN [tell(z, Line("empty_table")) EXCEPT
                                          !.pc = "finally"]
                                 ELSE [yield_(z, Line("preparing")) EXCEPT
                                          !.pc = "csv"])
        /\ UNCHANGED <<disk, clock, restVars>>

\* the CSV is written and handed over: a file in TEMP_DIR whose path is
\* yielded (app_gradio.py 103-113), or a document sent (bot.py 100-110)
SendCsv ==
    \E s \in DOMAIN subs :
    LET x == subs[s]
    IN  /\ x.pc = "csv"
        /\ IF x.handler = "gradio"
           THEN /\ disk' = write(disk, csv_path(s), 0)
                /\ LET y == [x EXCEPT !.written = @ \cup {csv_path(s)},
                                      !.csv_path = csv_path(s)]
                   IN  Put(s, IF x.fault = "csv"
                              THEN [y EXCEPT !.pc = "except"]
                              ELSE [yield_(y, Line("done")) EXCEPT
                                       !.artifacts = Append(@, csv_path(s)),
                                       !.pc = "finally"])
           ELSE /\ UNCHANGED disk
                /\ Put(s, IF x.fault = "csv"
                          THEN [x EXCEPT !.pc = "except"]
                          ELSE [reply(x, Line("csv_sent")) EXCEPT
                                   !.artifacts = Append(@, <<"document", s>>),
                                   !.pc = "finally"])
        /\ UNCHANGED <<clock, restVars>>

\* except Exception: the user is told that an error occurred
ErrorReply ==
    \E s \in DOMAIN subs :
    LET x == subs[s]
    IN  /\ x.pc = "except"
        /\ Put(s, [tell(x, Line("error")) EXCEPT !.pc = "finally"])
        /\ UNCHANGED <<disk, clock, restVars>>

\* finally: cleanup_files on the list
Cleanup ==
    \E s \in DOMAIN subs :
    LET x == subs[s]
        paths == cleanup_list(x)
        c == cleanup_files(disk, paths, {})
    IN  /\ x.pc = "finally"
        /\ disk' = c.disk
        /\ Put(s, [note(note(x, Line("cleaning")), Line("cleaned")) EXCEPT
                      !.cleanup_calls = Append(@, paths),
                      !.pc = "done"])
        /\ UNCHANGED <<clock, restVars>>

(***************************************************************************)
(* Specification SpecHandler: one submission to one of the five handlers   *)
(***************************************************************************)
\* the files of the callers: the upload Gradio keeps for each of its
\* submissions
uploads(ss) ==
    {<<input_path("gradio", ss[s].id), 0>> :
        s \in {t \in DOMAIN ss : ss[t].handler = "gradio"}}

InitHandler ==
    /\ AggregatorIdle
    /\ ExtractorIdle
    /\ CleanupIdle
    /\ video = NoVideo
    /\ similarity_threshold = <<>>
    /\ distinct_frames = <<>>
    /\ clock = 0
    /\ pc = "handle"
    /\ \E h \in Handlers : \E dt \in ClockSteps :
          \/ subs = <<Submission(h, 1, FALSE, NoVideo, <<>>, <<>>, "none", dt)>>
          \/ \E fault \in Faults :
                \/ /\ h \in VideoHandlers
                   /\ subs = <<Submission(h, 1, TRUE, Unopenable, <<>>, <<>>,
                                          fault, dt)>>
                \/ \E n \in 1..MaxFrames : \E r \in 1..n :
                      subs = <<Submission(h, 1, TRUE, ScrollVideo(n, r),
                                          <<>>, <<>>, fault, dt)>>
                \/ \E n \in 0..MaxFrames :
                      \E ocr \in [1..n -> Outcomes] :
                         \E dates \in [1..n -> IF h \in DateHandlers
                                               THEN BOOLEAN ELSE {FALSE}] :
                            subs = <<Submission(h, 1, TRUE, ScrollVideo(n, 0),
                                                ocr, dates, fault, dt)>>
    /\ disk = uploads(subs)

NextHandler ==
    \/ Receive
    \/ Download
    \/ ExtractFrames
    \/ ProcessFrame
    \/ AggregateFrames
    \/ SendCsv
    \/ ErrorReply
    \/ Cleanup

SpecHandler == InitHandler /\ [][NextHandler]_vars

(***************************************************************************)
(* Specification SpecConcurrent: two submissions in progress at once, both *)
(* to handle_video of bot_telethon.py (whose message ids are equal when    *)
(* two chats number their messages alike) or both to                       *)
(* process_video_for_gradio; each video has one frame, which gives items   *)
(***************************************************************************)
\* a one-frame video submitted under the given id
OneFrame(h, id, dt) ==
    Submission(h, id, TRUE, ScrollVideo(1, 0), <<"items">>, <<FALSE>>,
               "none", dt)

InitConcurrent ==
    /\ AggregatorIdle
    /\ ExtractorIdle
    /\ CleanupIdle
    /\ video = NoVideo
    /\ similarity_threshold = <<>>
    /\ distinct_frames = <<>>
    /\ clock = 0
    /\ pc = "handle"
    /\ \E dt1 \in ClockSteps, dt2 \in ClockSteps :
          \/ \E id \in {1, 2} :
                subs = <<OneFrame("telethon_video", 1, dt1),
                         OneFrame("telethon_video", id, dt2)>>
          \/ subs = <<OneFrame("gradio", 1, dt1), OneFrame("gradio", 2, dt2)>>
    /\ disk = uploads(subs)

NextConcurrent ==
    \/ Receive
    \/ Download
    \/ ExtractFrames
    \/ ProcessFrame
    \/ AggregateFrames
    \/ SendCsv
    \/ Cleanup

SpecConcurrent == InitConcurrent /\ [][NextConcurrent]_vars

(***************************************************************************)
(* The OCR extractor (ocr_extractor.py 88-185).  The text of an answer is  *)
(* a sequence of tokens <<kind, keys>>: a fence, white space, a bracket, a *)
(* comma, other text, or a JSON value, which for an object carries the set *)
(* of its keys; fence_json is the fence with the tag json, fence the bare   *)
(* fence.  A decoded JSON value is a record [kind, keys, items].           *)
(***************************************************************************)
Tok(kind) == <<kind, {}>>

FENCE_JSON == Tok("fence_json")

FENCE == Tok("fence")

WS == Tok(" ")

\* the text of a JSON object with the given keys
JsonObject(keys) == <<"{}", keys>>

\* the keys line 166-169 ask for
RequiredKeys == {"item_name", "item_size", "price_per_unit"}

\* the key sets of the objects tried
KeySets ==
    {RequiredKeys, RequiredKeys \cup {"unit"},
     {"item_name", "price_per_unit"}, {"item_name", "item_size"},
     {"item_size", "price_per_unit"}}

\* the texts of the JSON values tried: objects, a number and an empty list
ValueTokens == {JsonObject(k) : k \in KeySets} \cup {Tok("1"), Tok("[]")}

\* str.strip() on a text
text_strip(t) ==
    LET keep == {i \in DOMAIN t : t[i] # WS}
    IN  IF keep = {} THEN <<>>
        ELSE SubSeq(t, CHOOSE i \in keep : \A j \in keep : i <= j,
                       CHOOSE i \in keep : \A j \in keep : j <= i)

startswith(t, prefix) == Len(t) >= 1 /\ t[1] = prefix

endswith(t, suffix) == Len(t) >= 1 /\ t[Len(t)] = suffix

\* lines 147-151: the text with a leading fence and a trailing fence removed
response_text(raw) ==
    LET stripped == text_strip(raw)
        opened == IF startswith(stripped, FENCE_JSON)
                  THEN text_strip(Tail(stripped)) ELSE stripped
    IN  IF endswith(opened, FENCE)
        THEN text_strip(SubSeq(opened, 1, Len(opened) - 1)) ELSE opened

\* the Python value of a JSON value text
value_of(k) ==
    [kind |-> CASE k[1] = "{}" -> "dict"
                [] k[1] = "[]" -> "list"
                [] OTHER -> k[1],
     keys |-> k[2], items |-> <<>>]

\* json.JSONDecodeError
JSON_DECODE_ERROR == [error |-> TRUE, value |-> value_of(Tok("null"))]

\* json.loads(response_text): one value, or a bracketed list of values
\* separated by commas; white space between the tokens is ignored
json_loads(s) ==
    LET t == text_strip(s)
        m == SelectSeq(SubSeq(t, 2, Len(t) - 1), LAMBDA k : k # WS)
        items == Rows([j \in 1..((Len(m) + 1) \div 2) |->
                          value_of(m[2 * j - 1])])
    IN  IF Len(t) = 1 /\ t[1] \in ValueTokens
        THEN [error |-> FALSE, value |-> value_of(t[1])]
        ELSE IF /\ Len(t) >= 2 /\ t[1] = Tok("[") /\ t[Len(t)] = Tok("]")
                /\ m # <<>> => Len(m) % 2 = 1
                /\ \A i \in DOMAIN m :
                       IF i % 2 = 1 THEN m[i] \in ValueTokens
                       ELSE m[i] = Tok(",")
        THEN [error |-> FALSE,
              value |-> [kind |-> "list", keys |-> {}, items |-> items]]
        ELSE JSON_DECODE_ERROR

\* the condition of lines 166-169
is_valid_item(item) == item.kind = "dict" /\ RequiredKeys \subseteq item.keys

\* the answer is given up when one of its elements is invalid
validate_all_or_nothing(extracted_data) ==
    IF \A i \in DOMAIN extracted_data : is_valid_item(extracted_data[i])
    THEN extracted_data ELSE <<>>

\* the loop of lines 164-172: valid_items
validate(extracted_data) == SelectSeq(extracted_data, is_valid_item)

\* the body of the outer try (lines 100-181): Image.open, generate_content
\* or response.text may raise; the inner handlers turn a decoding error
\* into []
try_generate(r) ==
    IF r.fails THEN [raised |-> TRUE, value |-> <<>>]
    ELSE LET text == response_text(r.text)
             extracted_data == json_loads(text)
         IN  [raised |-> FALSE,
              value |-> IF text = <<>> THEN <<>>
                        ELSE IF extracted_data.error THEN <<>>
                        ELSE IF extracted_data.value.kind # "list" THEN <<>>
                        ELSE validate(extracted_data.value.items)]

\* extract_data_from_frame_gemini(frame_path): [] without an API key
\* (lines 95-97) and when the try body raises (lines 183-185)
extract_data_from_frame_gemini(r) ==
    IF ~r.key \/ try_generate(r).raised
    THEN [raised |-> FALSE, value |-> <<>>]
    ELSE try_generate(r)

(***************************************************************************)
(* Specification SpecExtract: extract_data_from_frame_gemini called on one *)
(* frame, for which the service gives one answer                           *)
(***************************************************************************)
\* what may come before and after the body of an answer
Openings ==
    {<<>>, <<WS>>, <<FENCE_JSON>>, <<FENCE_JSON, WS>>, <<WS, FENCE_JSON, WS>>,
     <<FENCE>>}

Closings ==
    {<<>>, <<WS>>, <<FENCE>>, <<WS, FENCE>>, <<WS, FENCE, WS>>,
     <<FENCE_JSON>>}

\* the text of a JSON list of the given element texts; gap is the white
\* space put after the bracket and after every comma
list_text(elems, gap) ==
    <<Tok("[")>> \o gap
    \o Rows([i \in 1..(IF elems = <<>> THEN 0
                       ELSE (Len(gap) + 2) * Len(elems) - (Len(gap) + 1)) |->
                LET w == Len(gap) + 2
                IN  IF i % w = 1 THEN elems[(i - 1) \div w + 1]
                    ELSE IF i % w = 2 THEN Tok(",") ELSE WS])
    \o <<Tok("]")>>

\* the bodies tried for the given elements: the list, the list cut short,
\* the list with a comma too many, and the elements with no brackets
BodiesOf(elems) ==
    {list_text(elems, <<>>), list_text(elems, <<WS>>),
     SubSeq(list_text(elems, <<>>), 1, Len(elems) * 2),
     list_text(elems, <<>>) \o <<Tok(",")>>,
     elems, <<Tok("x")>> \o elems}

\* the answers tried: with no API key configured the service is not called
IsResponse(r) ==
    \E key \in BOOLEAN, fails \in BOOLEAN :
        /\ key \/ ~fails
        /\ \E elems \in SeqsUpTo(ValueTokens, MaxFrameItems) :
               \E body \in BodiesOf(elems) :
                   \E open \in Openings, close \in Closings :
                       r = [key |-> key, fails |-> fails,
                            text |-> open \o body \o close]

InitExtract ==
    /\ AggregatorIdle
    /\ SelectorIdle
    /\ CleanupIdle
    /\ NoSubmission
    /\ IsResponse(response)
    /\ valid_items = NotExtracted
    /\ pc = "extract"

\* extracted_items = extract_data_from_frame_gemini(frame_path)
ExtractData ==
    /\ pc = "extract"
    /\ valid_items' = extract_data_from_frame_gemini(response)
    /\ pc' = "extracted"
    /\ UNCHANGED <<all_frames_data, final_df, q, size, selVars, cleanVars,
                   subs, response>>

NextExtract == ExtractData

SpecExtract == InitExtract /\ [][NextExtract]_vars

(***************************************************************************)
(* Specification Spec: aggregate_receipt_data called on one input          *)
(***************************************************************************)
Init ==
    /\ all_frames_data \in FrameInputs \cup RowInputs
    /\ final_df = NoTable
    /\ q = NONE
    /\ size = NONE
    /\ SelectorIdle
    /\ NoSubmission
    /\ ExtractorIdle
    /\ CleanupIdle
    /\ pc = "call"

\* final_df = aggregate_receipt_data(all_extracted_items_from_frames)
Aggregate ==
    /\ pc = "call"
    /\ final_df' = aggregate_receipt_data(all_frames_data)
    /\ pc' = "returned"
    /\ UNCHANGED <<all_frames_data, q, size, selVars, cleanVars, subs, ocrVars>>

Next == Aggregate

Spec == Init /\ [][Next]_vars

(***************************************************************************)
(* Specification SpecSize: parse_size applied to one item_size cell        *)
(***************************************************************************)
SizeChars == {"0", "1", "3", "-", ".", " ", "a"}

\* the item_size cells tried: missing values, integers, floats in quarter
\* units, and short strings
SizeInputs ==
    {NONE, NaN}
    \cup {PyInt(n) : n \in -MaxInt..MaxInt}
    \cup {PyFloat(25 * n) : n \in -MaxInt..MaxInt}
    \cup {PyStr(s) : s \in SeqsUpTo(SizeChars, MaxStrLen)}
    \cup {PyStr(<<"a","b","c">>)}

InitSize ==
    /\ all_frames_data = <<>>
    /\ final_df = NoTable
    /\ q \in SizeInputs
    /\ size = NONE
    /\ SelectorIdle
    /\ NoSubmission
    /\ ExtractorIdle
    /\ CleanupIdle
    /\ pc = "size"

\* df['item_size'].apply(parse_size) on one cell
ParseSize ==
    /\ pc = "size"
    /\ size' = parse_size(q)
    /\ pc' = "sized"
    /\ UNCHANGED <<all_frames_data, final_df, q, selVars, cleanVars, subs, ocrVars>>

NextSize == ParseSize

SpecSize == InitSize /\ [][NextSize]_vars

(***************************************************************************)
(* Vocabulary of the properties                                            *)
(***************************************************************************)
Returned == pc = "returned"

FinalColumns == <<"Date", "Quantity", "Item Name", "Cost Per Item ($)">>

OutRows == final_df.rows

\* the normalized name, size and price of an item; token: the name has no
\* alphabetic character (a date token)
NormOf ==
    [item \in Items |->
        LET nm == normalize_name(item.item_name)
        IN  [name  |-> nm,
             size  |-> parse_size(item.item_size),
             price |-> to_numeric(item.price_per_unit),
             token |-> \A c \in DOMAIN nm : ~isalpha(nm[c])]]

RECURSIVE AllItems(_)
\* the items of the frames, frame by frame in input order
AllItems(frames) ==
    IF frames = <<>> THEN <<>> ELSE Head(frames) \o AllItems(Tail(frames))

\* the flattened input of the call, normalized
NormRows ==
    LET flat == AllItems(all_frames_data)
    IN  Rows([i \in DOMAIN flat |-> NormOf[flat[i]]])

RECURSIVE QuantityUpTo(_)
\* sum of Quantity over the first k output rows
QuantityUpTo(k) ==
    IF k = 0 THEN 0 ELSE QuantityUpTo(k - 1) + OutRows[k]["Quantity"]

RECURSIVE Repeat(_, _)
Repeat(x, m) == IF m = 0 THEN <<>> ELSE <<x>> \o Repeat(x, m - 1)

RECURSIVE DatesUpTo(_)
\* the Date column read back row by row: the Date of output row k stands
\* once for every flattened row the group counts
DatesUpTo(k) ==
    IF k = 0 THEN <<>>
    ELSE DatesUpTo(k - 1) \o Repeat(OutRows[k]["Date"], OutRows[k]["Quantity"])

ShownDates == DatesUpTo(Len(OutRows))

\* two cells show the same value (two missing cells show the same)
SameCell(a, b) == IF isna(a) \/ isna(b) THEN isna(a) /\ isna(b) ELSE PyEq(a, b)

\* positions i and j of n hold the same normalized row
SameRow(n, i, j) ==
    /\ n[i].name = n[j].name
    /\ SameCell(n[i].size, n[j].size)
    /\ SameCell(n[i].price, n[j].price)

\* the nearest date token at or after position i, None when there is none
UpcomingDate(n, i) ==
    LET later == {j \in i..Len(n) : n[j].token}
    IN  IF later = {} THEN NONE
        ELSE PyStr(n[CHOOSE j \in later : \A m \in later : j <= m].name)

(***************************************************************************)
(* C1: normalized rows [A, A, A, B, A] give exactly the three rows         *)
(* A x 3, B x 1, A x 1, in this order.                                     *)
(***************************************************************************)
IsAAABA(n) ==
    /\ Len(n) = 5
    /\ SameRow(n, 1, 2) /\ SameRow(n, 2, 3) /\ SameRow(n, 3, 5)
    /\ ~SameRow(n, 3, 4)

C1_RunLengthAAABA ==
    Returned =>
        LET n == NormRows
        IN  IsAAABA(n) =>
              /\ Len(OutRows) = 3
              /\ OutRows[1]["Quantity"] = 3 /\ OutRows[1]["Item Name"].v = n[1].name
              /\ OutRows[2]["Quantity"] = 1 /\ OutRows[2]["Item Name"].v = n[4].name
              /\ OutRows[3]["Quantity"] = 1 /\ OutRows[3]["Item Name"].v = n[5].name

(***************************************************************************)
(* C2: the frames [MILK] and [MILK, BREAD] with no date token aggregate to *)
(* MILK with Quantity 2 at 2.99, then BREAD with Quantity 1 at 3.50.       *)
(***************************************************************************)
C2_OverlapScenario ==
    (Returned /\ all_frames_data = << <<MILK>>, <<MILK, BREAD>> >>) =>
        /\ Len(OutRows) = 2
        /\ OutRows[1]["Quantity"] = 2
        /\ OutRows[1]["Item Name"] = PyStr(<<"M","I","L","K">>)
        /\ OutRows[1]["Cost Per Item ($)"] = PyFloat(299)
        /\ OutRows[2]["Quantity"] = 1
        /\ OutRows[2]["Item Name"] = PyStr(<<"B","R","E","A","D">>)
        /\ OutRows[2]["Cost Per Item ($)"] = PyFloat(350)

(***************************************************************************)
(* C3: in [X, D, Y, Z] with D the only date token, X, Y and Z all receive  *)
(* the date D.                                                             *)
(***************************************************************************)
IsXDYZ(n) ==
    /\ Len(n) = 4
    /\ n[2].token
    /\ ~n[1].token /\ ~n[3].token /\ ~n[4].token

C4_NearestUpcomingDate ==
    Returned =>
        LET n == NormRows
            shown == ShownDates
        IN  n # <<>> =>
              /\ Len(shown) = Len(n)
              /\ \A i \in DOMAIN n :
                    LET d == UpcomingDate(n, i)
                    IN  IF isna(d) THEN isna(shown[i]) ELSE shown[i] = d

\* [X, Y, D1, Z, D2]: X and Y show D1, Z shows D2
C4_Witness ==
    /\ Returned
    /\ LET n == NormRows
           shown == ShownDates
       IN  /\ Len(n) = 5
           /\ n[3].token /\ n[5].token /\ n[3].name # n[5].name
           /\ ~n[1].token /\ ~n[2].token /\ ~n[4].token
           /\ Len(shown) = 5
           /\ shown[1] = PyStr(n[3].name) /\ shown[2] = PyStr(n[3].name)
           /\ shown[4] = PyStr(n[5].name)

(***************************************************************************)
(* C5: Quantity is the run length over the output columns: each output row *)
(* stands for a maximal run of consecutive flattened rows that agree on    *)
(* Date, normalized Item Name and numeric Cost Per Item.                   *)
(***************************************************************************)
\* positions i - 1 and i agree on the output columns
AgreeWithPrevious(n, i) ==
    /\ n[i].name = n[i - 1].name
    /\ SameCell(n[i].price, n[i - 1].price)
    /\ SameCell(UpcomingDate(n, i), UpcomingDate(n, i - 1))

C5_QuantityIsRunLength ==
    Returned =>
        LET n == NormRows
        IN  n # <<>> =>
              /\ QuantityUpTo(Len(OutRows)) = Len(n)
              /\ \A i \in DOMAIN n :
                    (\E k \in DOMAIN OutRows : i = QuantityUpTo(k - 1) + 1)
                        <=> (i = 1 \/ ~AgreeWithPrevious(n, i))

(***************************************************************************)
(* C6: every returned row has a non-null Item Name and a numeric,          *)
(* non-missing Cost Per Item.                                              *)
(***************************************************************************)
C6_NameAndPricePresent ==
    Returned =>
        \A k \in DOMAIN OutRows :
            /\ ~isna(OutRows[k]["Item Name"])
            /\ OutRows[k]["Cost Per Item ($)"].t = "float"

(***************************************************************************)
(* C7: the Date column of every returned table is uniform: null on all     *)
(* rows, or the same date on all rows.                                     *)
(***************************************************************************)
UniformDate ==
    \/ \A k \in DOMAIN OutRows : isna(OutRows[k]["Date"])
    \/ \A k, l \in DOMAIN OutRows :
          /\ ~isna(OutRows[k]["Date"])
          /\ OutRows[k]["Date"] = OutRows[l]["Date"]

OneDateClosing(n) ==
    \/ \A i \in DOMAIN n : ~n[i].token
    \/ /\ n # <<>> /\ n[Len(n)].token
       /\ \A i, j \in DOMAIN n : (n[i].token /\ n[j].token) => n[i].name = n[j].name

RECURSIVE ItemAt(_, _)
\* the item at flattened position p, counted frame by frame in input order
ItemAt(frames, p) ==
    IF p <= Len(Head(frames)) THEN Head(frames)[p]
    ELSE ItemAt(Tail(frames), p - Len(Head(frames)))

RECURSIVE ItemCount(_)
ItemCount(frames) ==
    IF frames = <<>> THEN 0 ELSE Len(Head(frames)) + ItemCount(Tail(frames))

C8_OrderPreserved ==
    (Returned /\ OutRows # <<>>) =>
        /\ QuantityUpTo(Len(OutRows)) = ItemCount(all_frames_data)
        /\ \A k \in DOMAIN OutRows :
              /\ OutRows[k]["Quantity"] >= 1
              /\ LET first == ItemAt(all_frames_data, QuantityUpTo(k - 1) + 1)
                 IN  /\ OutRows[k]["Item Name"]
                           = PyStr(normalize_name(first.item_name))
                     /\ SameCell(OutRows[k]["Cost Per Item ($)"],
                                 to_numeric(first.price_per_unit))

\* two non-empty frames whose rows end in different groups
C8_Witness ==
    /\ Returned
    /\ Len(all_frames_data) = 2
    /\ all_frames_data[1] # <<>> /\ all_frames_data[2] # <<>>
    /\ Len(OutRows) >= 2
    /\ OutRows[1]["Item Name"] # OutRows[Len(OutRows)]["Item Name"]

(***************************************************************************)
(* C9: for [] and for lists whose frames are all empty the call returns a  *)
(* table with zero rows and the headers of a non-empty result.             *)
(***************************************************************************)
C9_EmptyInputHeaders ==
    (Returned /\ \A f \in DOMAIN all_frames_data : all_frames_data[f] = <<>>) =>
        /\ OutRows = <<>>
        /\ final_df.columns = FinalColumns

(***************************************************************************)
(* C10: parse_size always gives an integer >= 1; missing, empty,           *)
(* non-numeric and non-positive inputs give 1; a positive integer, as a    *)
(* number or as a decimal string, gives that integer.                      *)
(***************************************************************************)
RECURSIVE py_str(_)
\* str(m) of a non-negative integer: its decimal digits
py_str(m) ==
    IF m < 10 THEN <<DigitChars[m + 1]>>
    ELSE py_str(m \div 10) \o <<DigitChars[(m % 10) + 1]>>

\* a decimal string of a positive integer in canonical form
IsPositiveDecimal(s) ==
    /\ s # <<>>
    /\ \A i \in DOMAIN s : isdigit(s[i])
    /\ s[1] # "0"

BothSelected == pc = "selected"

\* the positions of the frames the loop does not skip
Candidates == {p \in 1..video.n : is_candidate(p, frame_skip(video.fps))}

\* the frames call c saved, read back from the files it returned
SelectedFrames(c) ==
    LET paths == distinct_frames[c].paths
    IN  Rows([k \in DOMAIN paths |-> content(disk, paths[k])])

SelectedCount(c) == Len(distinct_frames[c].paths)

LowerThenHigher == similarity_threshold[1] < similarity_threshold[2]

SameThreshold == similarity_threshold[1] = similarity_threshold[2]

(***************************************************************************)
(* C11: for every sequence of candidate frames and thresholds t1 <= t2,    *)
(* the number of frames selected with t2 is at least the number selected   *)
(* with t1                                                                 *)
(***************************************************************************)
C11_ThresholdMonotone ==
    BothSelected => SelectedCount(2) >= SelectedCount(1)

(***************************************************************************)
(* C11 amended: for every sequence of at most three candidate frames and   *)
(* thresholds t1 <= t2, the number selected with t2 is at least the number *)
(* selected with t1                                                        *)
(***************************************************************************)
C11_MonotoneUpToThree ==
    (BothSelected /\ Cardinality(Candidates) <= 3)
        => SelectedCount(2) >= SelectedCount(1)

\* three candidates, the higher threshold selects strictly more of them
C11_Witness ==
    /\ BothSelected
    /\ LowerThenHigher
    /\ Cardinality(Candidates) = 3
    /\ SelectedCount(1) = 2
    /\ SelectedCount(2) = 3

C15_CleanupFiles ==
    pc = "cleaned" =>
        /\ ~cleaned.raised
        /\ cleaned.attempted = file_paths
        /\ \A k \in DOMAIN file_paths :
               IF file_paths[k] \in Range(cleaned.reported)
               THEN file_paths[k] \in locked /\ exists(disk, file_paths[k])
               ELSE ~exists(disk, file_paths[k])
        /\ \A path \in Range(cleaned.reported) : path \in Range(file_paths)

\* a missing path, then a file whose deletion fails, then a file that is
\* deleted
C15_Witness ==
    /\ pc = "cleaned"
    /\ file_paths = <<<<"video", 1>>, <<"frame", 0>>, <<"frame", 1>>>>
    /\ locked = {<<"frame", 0>>}
    /\ cleaned.reported = <<<<"frame", 0>>>>
    /\ disk = {file(<<"frame", 0>>)}

(***************************************************************************)
(* Vocabulary of the handler properties                                    *)
(***************************************************************************)
Finished(x) == x.pc = "done"

\* the paths of frame and page images
IsFrameImage(path) == path[1] \in {"frame", "time_page", "pdf_page"}

\* the lines the user was shown, over all messages
ShownLines(x) == UNION {Range(m) : m \in Range(x.messages)}

\* the last line the user was shown
LastLine(x) ==
    LET m == x.messages[Len(x.messages)] IN m[Len(m)]

\* the run left the try through the except block
Caught(x) == Line("error") \in ShownLines(x)

\* an exception was raised at some point of the run
ExceptionRaised(x) ==
    \/ x.crashed
    \/ Caught(x)
    \/ \E l \in ShownLines(x) : l[1] = "frame_error"

IsPrefix(a, b) == Len(a) <= Len(b) /\ SubSeq(b, 1, Len(a)) = a

\* the item lists the first k frames give: nothing for a frame whose
\* extraction raises, else its items if any, then its date if any
RECURSIVE ExpectedLists(_, _)

ExpectedLists(x, k) ==
    IF k = 0 THEN <<>>
    ELSE LET path == x.distinct_frame_paths[k]
             o == ocr_outcome(x, disk, path)
             before == ExpectedLists(x, k - 1)
         IN  IF o = "raises" THEN before
             ELSE before
                  \o (IF o = "items"
                      THEN <<FrameOutput(content(disk, path))>> ELSE <<>>)
                  \o (IF date_found(x, disk, path)
                      THEN <<<<date_item(content(disk, path))>>>>
                      ELSE <<>>)

\* the frames among the first k whose extraction raises
RaisingFrames(x, k) ==
    {j \in 1..k :
        ocr_outcome(x, disk, x.distinct_frame_paths[j]) = "raises"}

\* the frames whose failure the user was told of
ReportedFrames(x) == {l[2] : l \in {m \in ShownLines(x) : m[1] = "frame_error"}}

(***************************************************************************)
(* C13: in every handler, if an exception is raised at any point of the    *)
(* pipeline, then when the handler finishes no frame or page image written *)
(* during the submission exists on disk                                    *)
(***************************************************************************)
C13_FramesCleanedOnFailure ==
    \A s \in DOMAIN subs :
        (Finished(subs[s]) /\ ExceptionRaised(subs[s]))
            => \A path \in subs[s].written :
                   IsFrameImage(path) => ~exists(disk, path)

(***************************************************************************)
(* C14: for every submission whose input was accepted, cleanup_files is    *)
(* called exactly once before the handler ends, on every path, a failing   *)
(* download included                                                       *)
(***************************************************************************)
C14_CleanupExactlyOnce ==
    \A s \in DOMAIN subs :
        (Finished(subs[s]) /\ subs[s].accepted)
            => Len(subs[s].cleanup_calls) = 1

C17_FrameFailureIsolated ==
    \A s \in DOMAIN subs :
        LET x == subs[s]
            n == Len(x.distinct_frame_paths)
        IN  /\ x.pc \in {"ocr", "aggregate"} =>
                /\ x.attempted = Rows([j \in 1..(x.i - 1) |-> j])
                /\ x.all_extracted_items_from_frames
                       = ExpectedLists(x, x.i - 1)
                /\ ReportedFrames(x) = RaisingFrames(x, x.i - 1)
            /\ x.pc = "aggregate" => x.i - 1 = n
            /\ (x.pc \in {"csv", "except", "finally"} /\ x.aggregated # <<>>)
                   => x.aggregated = <<ExpectedLists(x, n)>>

\* the first of two frames raised and was reported, the second was still
\* read, and its items alone were aggregated
C17_Witness ==
    \E s \in DOMAIN subs :
        LET x == subs[s]
        IN  /\ x.pc = "csv"
            /\ x.ocr = <<"raises", "items">>
            /\ x.dt = 1
            /\ x.attempted = <<1, 2>>
            /\ ReportedFrames(x) = {1}
            /\ x.aggregated = <<<<FrameOutput(2)>>>>

(***************************************************************************)
(* C19: over one run of process_video_for_gradio every status text yielded *)
(* has the status text yielded before it as a prefix, on the success, the  *)
(* empty-result and the exception paths                                    *)
(***************************************************************************)
C19_StatusAppendOnly ==
    \A s \in DOMAIN subs :
        LET x == subs[s]
        IN  x.handler = "gradio" =>
                \A k \in 1..(Len(x.messages) - 1) :
                    IsPrefix(x.messages[k], x.messages[k + 1])

\* a web-form run that ended on the exception path after a frame was read
C19_Witness ==
    \E s \in DOMAIN subs :
        LET x == subs[s]
        IN  /\ x.handler = "gradio"
            /\ Finished(x)
            /\ Caught(x)
            /\ Len(x.messages) >= 6
            /\ LastLine(x) = Line("error")

(***************************************************************************)
(* C20: a handler emits a CSV at most once, and only in a run where a      *)
(* frame was found, a frame gave items and the table is not empty; a run   *)
(* with no frames, no items, an empty table or an unexpected exception     *)
(* ends with a message to the user, emits no CSV and does not crash        *)
(***************************************************************************)
C20_ArtifactOnlyOnSuccess ==
    \A s \in DOMAIN subs :
        LET x == subs[s]
        IN  (Finished(x) /\ x.accepted) =>
                /\ Len(x.artifacts) <= 1
                /\ ~x.crashed
                /\ IF x.artifacts # <<>>
                   THEN /\ x.distinct_frame_paths # <<>>
                        /\ x.all_extracted_items_from_frames # <<>>
                        /\ x.final_df.rows # <<>>
                        /\ ~Caught(x)
                   ELSE LastLine(x)[1] \in
                            {"no_frames", "no_items", "empty_table", "error"}

\* a submission is in progress from its download to the end of its cleanup
InProgress(x) == x.pc \notin {"start", "done"}

(***************************************************************************)
(* C18: for any two submissions in progress at the same time, the          *)
(* temporary paths written by one are disjoint from those written by the   *)
(* other, and no submission finds a file it has to read deleted            *)
(***************************************************************************)
C18_NoTempFileCollision ==
    /\ \A s \in DOMAIN subs : subs[s].missing = 0
    /\ \A s \in DOMAIN subs : \A t \in DOMAIN subs \ {s} :
           (InProgress(subs[s]) /\ InProgress(subs[t]))
               => subs[s].written \cap subs[t].written = {}

(***************************************************************************)
(* Vocabulary of the extractor properties                                  *)
(***************************************************************************)
Extracted == pc = "extracted"

\* the service was called and gave an answer
Answered == response.key /\ ~response.fails

\* the answer without its fences, and what it decodes to
Payload == response_text(response.text)

PayloadValue == json_loads(Payload)

\* the answer is a JSON list
IsJsonList ==
    /\ Answered
    /\ Payload # <<>>
    /\ ~PayloadValue.error
    /\ PayloadValue.value.kind = "list"

ListElements == PayloadValue.value.items

IsObject(e) == e.kind = "dict"

\* an object with the three keys
WellFormed(e) == IsObject(e) /\ RequiredKeys \subseteq e.keys

\* a is b with some of its elements left out
RECURSIVE IsSubsequence(_, _)

IsSubsequence(a, b) ==
    IF a = <<>> THEN TRUE
    ELSE IF b = <<>> THEN FALSE
    ELSE IF Head(a) = Head(b) THEN IsSubsequence(Tail(a), Tail(b))
    ELSE IsSubsequence(a, Tail(b))

(***************************************************************************)
(* C21: extract_data_from_frame_gemini never raises; it returns [] when    *)
(* the service call fails or the answer is empty, is not JSON or is JSON   *)
(* that is no list; for a JSON list the returned elements are objects of   *)
(* the list in its order, every object with the three keys is returned and *)
(* no element that is not an object is                                     *)
(***************************************************************************)
C21_MalformedIsZeroItems ==
    Extracted =>
        /\ ~valid_items.raised
        /\ ~IsJsonList => valid_items.value = <<>>
        /\ IsJsonList =>
               /\ IsSubsequence(valid_items.value, ListElements)
               /\ \A i \in DOMAIN valid_items.value :
                      IsObject(valid_items.value[i])
               /\ SelectSeq(valid_items.value, WellFormed)
                      = SelectSeq(ListElements, WellFormed)

\* a fenced list with an element that is no object before a well-formed one
C21_Witness ==
    /\ Extracted
    /\ IsJsonList
    /\ startswith(response.text, FENCE_JSON)
    /\ Len(ListElements) = 2
    /\ ~IsObject(ListElements[1])
    /\ valid_items.value = <<ListElements[2]>>

(***************************************************************************)
(* C22: an object of the JSON list that has an item_name but no item_size  *)
(* key, or no price_per_unit key, is returned as an item                   *)
(***************************************************************************)
HasName(e) == IsObject(e) /\ "item_name" \in e.keys

C22_OptionalKeysKept ==
    (Extracted /\ IsJsonList) =>
        SelectSeq(valid_items.value, HasName)
            = SelectSeq(ListElements, HasName)

(***************************************************************************)
(* Vocabulary of the selection rule properties                             *)
(***************************************************************************)
\* the calls of extract_distinct_frames that have returned
ReturnedCalls == {c \in DOMAIN distinct_frames : ~distinct_frames[c].raised}

\* the last frame of selected before the frame cur, 0 if there is none
ReferenceOf(selected, cur) ==
    LET before == {f \in selected : f < cur}
    IN  IF before = {} THEN 0
        ELSE CHOOSE f \in before : \A g \in before : g <= f

\* the set of the frames call c selected
SelectedSet(c) == {Range(SelectedFrames(c))}

\* the comparison of the frames of the pair p fails
ComparisonFails(p) == ssim(video, p[1], p[2]).error

(***************************************************************************)
(* C23: in extract_distinct_frames the first candidate is always selected; *)
(* a later candidate is compared with the last selected candidate and with *)
(* no other frame, and it is selected if and only if the score is strictly *)
(* below the threshold                                                     *)
(***************************************************************************)
C23_SelectionRule ==
    \A c \in ReturnedCalls : \A selected \in SelectedSet(c) :
        LET processed == distinct_frames[c].processed
            compared == Range(distinct_frames[c].compared)
        IN  \A k \in DOMAIN processed :
                \A ref \in {ReferenceOf(selected, processed[k])} :
                    LET cur == processed[k]
                    IN  /\ (ref = 0) <=> (k = 1)
                        /\ k = 1 => cur \in selected
                        /\ \A p \in compared : p[2] = cur => p[1] = ref
                        /\ k > 1 =>
                               /\ <<ref, cur>> \in compared
                               /\ ~ComparisonFails(<<ref, cur>>) =>
                                      (cur \in selected <=>
                                           ssim(video, ref, cur).value
                                               < similarity_threshold[c])

\* frame 2 scores exactly the threshold 0.60 against frame 1 and is left
\* out, and frame 3 is then compared with frame 1, not with frame 2
C23_Witness ==
    /\ BothSelected
    /\ similarity_threshold[2] = 60
    /\ video.n = 3
    /\ video.odd = {}
    /\ video.sim[<<1, 2>>] = similarity_threshold[2]
    /\ SelectedFrames(2) = <<1, 3>>
    /\ distinct_frames[2].compared = <<<<1, 2>>, <<1, 3>>>>

(***************************************************************************)
(* C24: when the similarity computation fails for a candidate, the         *)
(* candidate is selected and becomes the reference, the frames selected    *)
(* before it stay selected, and the loop goes on to the last candidate     *)
(***************************************************************************)
C24_FailOpen ==
    \A c \in DOMAIN distinct_frames : \A selected \in SelectedSet(c) :
        LET compared == distinct_frames[c].compared
        IN  /\ video.raises = 0 =>
                   /\ c \in ReturnedCalls
                   /\ Range(distinct_frames[c].processed) = Candidates
            /\ c \in ReturnedCalls =>
                   \A k \in DOMAIN compared :
                       ComparisonFails(compared[k]) =>
                           /\ compared[k][2] \in selected
                           /\ \A j \in 1..k : compared[j][1] \in selected
                           /\ k < Len(compared) =>
                                  compared[k + 1][1] = compared[k][2]

\* frames 2 and 3 have another shape than frames 1 and 4: the comparisons
\* of 2 with 1 and of 4 with 2 fail, the comparison of 3 with 2 does not
C24_Witness ==
    /\ BothSelected
    /\ video.n = 4
    /\ video.odd = {2, 3}
    /\ video.raises = 0
    /\ SelectedFrames(1) = <<1, 2, 4>>
    /\ distinct_frames[1].compared = <<<<1, 2>>, <<2, 3>>, <<2, 4>>>>

(***************************************************************************)
(* C25: the stride is max(1, round(fps / 2)) for a positive frame rate and *)
(* 1 otherwise; with stride s > 1 the frame with 1-based index i is a      *)
(* candidate if and only if i mod s = 0, with s = 1 every frame is         *)
(***************************************************************************)
\* round(fps / 2) of Python: a tie goes to the even neighbour
RoundHalf(fps) ==
    IF fps % 2 = 0 THEN fps \div 2
    ELSE IF (fps \div 2) % 2 = 0 THEN fps \div 2 ELSE fps \div 2 + 1

RoundedStride(fps) ==
    IF fps > 0 THEN (IF RoundHalf(fps) > 1 THEN RoundHalf(fps) ELSE 1) ELSE 1

C25_StrideRounded ==
    \A c \in ReturnedCalls :
        video.opened =>
            Range(distinct_frames[c].processed) =
                {i \in 1..video.n :
                    RoundedStride(video.fps) = 1
                    \/ i % RoundedStride(video.fps) = 0}

(***************************************************************************)
(* C30: extract_distinct_frames returns an empty list exactly when the     *)
(* video cannot be opened or fewer frames are decoded than the stride;     *)
(* otherwise the first returned frame is the one whose index is the stride *)
(***************************************************************************)
C30_EmptyExactly ==
    \A c \in ReturnedCalls :
        LET stride == frame_skip(video.fps)
            selected == SelectedFrames(c)
        IN  /\ (selected = <<>>) <=> (~video.opened \/ video.n < stride)
            /\ (video.opened /\ video.n >= stride) => selected[1] = stride

\* at 4 frames per second the stride is 2: of three decoded frames the
\* first returned one is frame 2
C30_Witness ==
    /\ BothSelected
    /\ video.fps = 4
    /\ video.n = 3
    /\ SelectedFrames(1)[1] = 2
    /\ SelectedFrames(2) # <<>>

(***************************************************************************)
(* C27: in the handlers that look for a date, a frame adds at most one     *)
(* date-token item (name the date, size None, price None), and only when a *)
(* date was read from it; the token comes directly after the items of its  *)
(* frame and before the items of every later frame, also when the frame    *)
(* gave no items; the other handlers add no date token                     *)
(***************************************************************************)
IsDateToken(list) == list \in {<<DATE1>>, <<DATE2>>}

\* the places of all_extracted_items_from_frames that frame j appended
AppendedBy(x, j) == {p \in DOMAIN x.appended_in : x.appended_in[p] = j}

C27_DateTokenOrder ==
    \A s \in DOMAIN subs :
        LET x == subs[s]
            lists == x.all_extracted_items_from_frames
            tokens == {p \in DOMAIN lists : IsDateToken(lists[p])}
        IN  /\ \A p \in DOMAIN lists \ {1} :
                   x.appended_in[p - 1] <= x.appended_in[p]
            /\ \A j \in 1..Len(x.distinct_frame_paths) :
                   LET path == x.distinct_frame_paths[j]
                       mine == AppendedBy(x, j) \cap tokens
                   IN  /\ Cardinality(mine) <= 1
                       /\ \A p \in mine : \A r \in AppendedBy(x, j) : r <= p
                       /\ (mine # {} /\ x.pc \in {"ocr", "aggregate"}) =>
                              /\ date_found(x, disk, path)
                              /\ \A p \in mine :
                                     lists[p] =
                                         <<date_item(content(disk, path))>>
                       /\ (/\ j \in Range(x.attempted)
                           /\ x.pc \in {"ocr", "aggregate"}
                           /\ date_found(x, disk, path)
                           /\ ocr_outcome(x, disk, path) # "raises")
                              => mine # {}
            /\ x.handler \notin DateHandlers => tokens = {}

\* the first frame gave a date and no items, the second items and a date
C27_Witness ==
    \E s \in DOMAIN subs :
        LET x == subs[s]
        IN  /\ x.handler = "telethon_video"
            /\ x.pc = "aggregate"
            /\ x.ocr = <<"empty", "items">>
            /\ x.all_extracted_items_from_frames
                   = <<<<DATE1>>, FrameOutput(2), <<DATE2>>>>
            /\ x.appended_in = <<1, 2, 2>>

(***************************************************************************)
(* Vocabulary of the grouping properties                                   *)
(***************************************************************************)
\* the flattened row i opens an output row
StartsGroup(i) == \E k \in DOMAIN OutRows : i = QuantityUpTo(k - 1) + 1

\* the flattened input of the call as given
RawRows == AllItems(all_frames_data)

(***************************************************************************)
(* C26: two adjacent flattened rows with the same normalized name, the     *)
(* same price and the same date but different parsed sizes are collapsed   *)
(* into one output row: the size is not part of the duplicate key          *)
(***************************************************************************)
\* rows i - 1 and i of n differ in the parsed size and in nothing else; the
\* price and the date are present
DifferInSizeOnly(n, i) ==
    /\ RawRows[i].item_name = RawRows[i - 1].item_name
    /\ n[i].name = n[i - 1].name
    /\ ~isna(n[i].price) /\ ~isna(n[i - 1].price)
    /\ PyEq(n[i].price, n[i - 1].price)
    /\ ~isna(UpcomingDate(n, i))
    /\ UpcomingDate(n, i) = UpcomingDate(n, i - 1)
    /\ n[i].size # n[i - 1].size

C26_SizeNotInKey ==
    Returned =>
        LET n == NormRows
        IN  \A i \in DOMAIN n \ {1} : DifferInSizeOnly(n, i) => ~StartsGroup(i)

(***************************************************************************)
(* C28: a flattened row whose price is missing, or whose back-filled Date  *)
(* is null, always starts a new group: it is never counted into the        *)
(* Quantity of the row before it                                           *)
(***************************************************************************)
C28_MissingNeverMerges ==
    Returned =>
        LET n == NormRows
        IN  \A i \in DOMAIN n :
                (isna(n[i].price) \/ isna(UpcomingDate(n, i)))
                    => StartsGroup(i)

\* two equal rows with an unparseable price before a date, and two equal
\* priced rows after the last date: four rows are returned besides the date
C28_Witness ==
    /\ Returned
    /\ RawRows = <<NOPRICE, NOPRICE, DATE1, MILK, MILK>>
    /\ Len(OutRows) = 5

(***************************************************************************)
(* C29: for a non-empty flattened input every Quantity is an integer >= 1  *)
(* and the Quantity column sums to the number of flattened rows            *)
(***************************************************************************)
C29_RowConservation ==
    (Returned /\ RawRows # <<>>) =>
        /\ \A k \in DOMAIN OutRows :
               OutRows[k]["Quantity"] \in Nat \ {0}
        /\ QuantityUpTo(Len(OutRows)) = Len(RawRows)

\* two equal rows merged before their date, the date row and a row with no
\* price: Quantity 2, 1 and 1
C29_Witness ==
    /\ Returned
    /\ RawRows = <<MILK, MILK, DATE1, NOPRICE>>
    /\ Len(OutRows) = 3
    /\ OutRows[1]["Quantity"] = 2

====
